---- MODULE Spec2Model ----
(***************************************************************************)
(* Model of parse_ppt: the FastAPI conversion endpoints of                 *)
(* app/api/convert.py served by the single uvicorn event loop of           *)
(* app/main.py, and the JSON-to-Markdown tool app/tools/json_to_md.py.     *)
(*                                                                         *)
(* Text is a sequence of one-character strings.  A filename is a sequence  *)
(* of tokens: a name part, ".", "/" or the directory component "..".       *)
(***************************************************************************)
EXTENDS Integers, Sequences, FiniteSets, TLC

VARIABLES pc, ep, fname, tmpdir, acts, resp, trace, loop, health,
          tmpDirs, tmpFiles, outfs, input, output

vars == <<pc, ep, fname, tmpdir, acts, resp, trace, loop, health,
          tmpDirs, tmpFiles, outfs, input, output>>

\* ------------------------------------------------------------------ bounds

\* Number of request slots the server model handles.
NReqs == 2
\* Number of directory names tempfile may hand out.
NTmp == 2
\* Longest text handed to _escape_md.
MaxLen == 3
\* Longest "data" list of grouped records handed to json_to_markdown.
MaxItems == 2

Reqs == 1..NReqs
TmpIds == 1..NTmp

\* ----------------------------------------------------- generic sequence help

RECURSIVE Concat(_)
Concat(ss) == IF ss = <<>> THEN <<>> ELSE Head(ss) \o Concat(Tail(ss))

SeqsUpTo(S, n) == UNION {[1..k -> S] : k \in 0..n}

\* ------------------------------------------------- json_to_md.py: _escape_md

BSL == "\\"
\* the grave accent U+0060 (the module's lexer rejects it inside a string)
BTK == "BACKTICK"
Special == {BSL, BTK, "*", "_", "[", "]", "#"}
Chars == Special \cup {"a"}

\* str.replace(old, new) for a one-character old
Replace(text, old, new) ==
    Concat([i \in 1..Len(text) |-> IF text[i] = old THEN new ELSE <<text[i]>>])

\* the replacement text of the second replace: the Python literal is a
\* backslash followed by TWO grave accents (backslash + grave accent is no
\* escape sequence, so the backslash stays and both accents follow it)
BacktickReplacement == <<BSL, BTK, BTK>>

_escape_md(text) ==
    Replace(Replace(Replace(Replace(Replace(Replace(Replace(text,
        BSL, <<BSL, BSL>>),
        BTK, BacktickReplacement),
        "*", <<BSL, "*">>),
        "_", <<BSL, "_">>),
        "[", <<BSL, "[">>),
        "]", <<BSL, "]">>),
        "#", <<BSL, "#">>)


\* ------------------------------------------- json_to_md.py: JSON values

\* A JSON value is a tagged record; Absent stands for a key the dict lacks.
Absent == [t |-> "absent"]
Null == [t |-> "null"]
Str(s) == [t |-> "str", v |-> s]
List(l) == [t |-> "list", v |-> l]
Num == [t |-> "num"]
EmptyList == List(<<>>)

\* bool(v)
Truthy(val) ==
    CASE val.t = "absent" -> FALSE
      [] val.t = "null" -> FALSE
      [] val.t = "str" -> val.v # <<>>
      [] val.t = "list" -> val.v # <<>>
      [] val.t = "dict" -> TRUE
      [] OTHER -> TRUE

\* str(v) for the values of the model; str(None) is the text None
PyStr(val) ==
    CASE val.t = "str" -> val.v
      [] val.t = "null" -> <<"N", "o", "n", "e">>
      [] val.t = "num" -> <<"5">>
      [] OTHER -> <<"?">>

\* d.get(key): None for a missing key
Get(val) == IF val.t = "absent" THEN Null ELSE val
\* d.get(key, default)
GetOr(val, default) == IF val.t = "absent" THEN default ELSE val
\* a or b
PyOr(a, b) == IF Truthy(a) THEN a ELSE b

\* ", ".join(v for v in values if v), values a sequence of texts
RECURSIVE _join(_)
_join(values) ==
    IF values = <<>> THEN <<>>
    ELSE IF Head(values) = <<>> THEN _join(Tail(values))
    ELSE LET rest == _join(Tail(values))
         IN IF rest = <<>> THEN Head(values)
            ELSE Head(values) \o <<",", " ">> \o rest

\* Fixed texts of the output (the Vietnamese labels, in ASCII).
DefaultMessage == <<"D", "S">>
DefaultSubject == <<"K", "h", "a", "c">>
DefaultTitle == <<"(", "K", ")">>

\* str.lower() and the code-point order of the lower-case letters that
\* subjects are made of.
Lower(c) == CASE c = "B" -> "b" [] c = "K" -> "k" [] c = "N" -> "n" [] OTHER -> c
LowerAlphabet == <<"a", "b", "c", "e", "h", "k", "n", "o">>
LowerOrd(c) == CHOOSE i \in 1..Len(LowerAlphabet) : LowerAlphabet[i] = Lower(c)

\* s.lower() < t.lower()
RECURSIVE LowerLess(_, _)
LowerLess(s, t) ==
    IF t = <<>> THEN FALSE
    ELSE IF s = <<>> THEN TRUE
    ELSE IF LowerOrd(Head(s)) # LowerOrd(Head(t))
         THEN LowerOrd(Head(s)) < LowerOrd(Head(t))
         ELSE LowerLess(Tail(s), Tail(t))

\* sorted(keys, key=lambda s: s.lower()): a stable sort
RECURSIVE InsertSorted(_, _)
InsertSorted(sorted, k) ==
    IF sorted = <<>> THEN <<k>>
    ELSE IF LowerLess(k, Head(sorted)) THEN <<k>> \o sorted
    ELSE <<Head(sorted)>> \o InsertSorted(Tail(sorted), k)

RECURSIVE SortedSubjects(_)
SortedSubjects(keys) ==
    IF keys = <<>> THEN <<>>
    ELSE InsertSorted(SortedSubjects(SubSeq(keys, 1, Len(keys) - 1)), keys[Len(keys)])


\* --------------------------------------- json_to_md.py: json_to_markdown

Line(k, label, text) == [k |-> k, label |-> label, text |-> text]
Blank == Line("blank", "", <<>>)

\* by_subject: the subjects in first-appearance order (the dict's key order)
RECURSIVE SubjectKeys(_)
SubjectKeys(data) ==
    IF data = <<>> THEN <<>>
    ELSE LET before == SubjectKeys(SubSeq(data, 1, Len(data) - 1))
             item == data[Len(data)]
             subject == PyStr(GetOr(item.subj, Str(DefaultSubject)))
         IN IF item.t # "dict" THEN before
            ELSE IF \E i \in 1..Len(before) : before[i] = subject THEN before
            ELSE Append(before, subject)

\* by_subject[subject]: the dict items of that subject, in data order
ItemsOf(data, subject) ==
    SelectSeq(data, LAMBDA item :
        item.t = "dict" /\ PyStr(GetOr(item.subj, Str(DefaultSubject))) = subject)

\* [str(x) for x in hashtags]
StrAll(l) == [i \in 1..Len(l) |-> PyStr(l[i])]

\* vn_names / en_names: str(name) of every dict element whose name is truthy
NamesOf(fields, key) ==
    IF fields.t # "list" THEN <<>>
    ELSE LET dicts == SelectSeq(fields.v, LAMBDA f : f.t = "dict")
             named == SelectSeq(dicts, LAMBDA f :
                          Truthy(Get(IF key = "vn" THEN f.vn ELSE f.en)))
         IN [i \in 1..Len(named) |->
                PyStr(IF key = "vn" THEN named[i].vn ELSE named[i].en)]

\* the bullet lines of one record (the body of the inner for loop)
ItemLines(item) ==
    LET title == PyStr(GetOr(item.title, Str(DefaultTitle)))
        code == PyStr(GetOr(item.code, Str(<<>>)))
        desc == PyStr(GetOr(item.desc, Str(<<>>)))
        hashtags == PyOr(Get(item.hashtag), EmptyList)
        hashtag_str == IF hashtags.t = "list" THEN _join(StrAll(hashtags.v))
                       ELSE PyStr(hashtags)
        id_course == PyStr(GetOr(item.id_course, Str(<<>>)))
        fields == PyOr(PyOr(Get(item.fields_opt), Get(item.fields)), EmptyList)
        vn_names == NamesOf(fields, "vn")
        en_names == NamesOf(fields, "en")
    IN <<Line("title", "", _escape_md(title))>>
       \o (IF code # <<>> THEN <<Line("sub", "ID", _escape_md(code))>> ELSE <<>>)
       \o (IF desc # <<>> THEN <<Line("sub", "Mo ta", _escape_md(desc))>> ELSE <<>>)
       \o (IF Truthy(hashtags)
           THEN <<Line("sub", "Hashtag", _escape_md(hashtag_str))>> ELSE <<>>)
       \o (IF id_course # <<>>
           THEN <<Line("sub", "id_course", <<BTK>> \o _escape_md(id_course) \o <<BTK>>)>>
           ELSE <<>>)
       \o (IF vn_names # <<>>
           THEN <<Line("sub", "Linh vuc", _escape_md(_join(vn_names)))>> ELSE <<>>)
       \o (IF en_names # <<>>
           THEN <<Line("sub", "Linh vuc (EN)", _escape_md(_join(en_names)))>> ELSE <<>>)

\* one subject's heading, its records and the blank line closing the group
GroupLines(data, subject) ==
    LET items == ItemsOf(data, subject)
    IN <<Line("h2", "", _escape_md(subject)), Blank>>
       \o Concat([i \in 1..Len(items) |-> ItemLines(items[i])])
       \o <<Blank>>

\* "\n".join(lines).rstrip(): the trailing blank lines go
RECURSIVE RStrip(_)
RStrip(lines) ==
    IF lines # <<>> /\ lines[Len(lines)] = Blank
    THEN RStrip(SubSeq(lines, 1, Len(lines) - 1))
    ELSE lines

json_to_markdown(obj) ==
    LET message == PyStr(PyOr(PyOr(Get(obj.message), Get(obj.Message)),
                              Str(DefaultMessage)))
        data == Get(obj.data)
    IN IF data.t # "list" THEN [ok |-> FALSE, error |-> "ValueError", lines |-> <<>>]
       ELSE LET subjects == SortedSubjects(SubjectKeys(data.v))
            IN [ok |-> TRUE, error |-> "",
                lines |-> RStrip(<<Line("h1", "", _escape_md(message)), Blank>>
                    \o Concat([i \in 1..Len(subjects) |->
                                  GroupLines(data.v, subjects[i])]))]


\* ------------------------------------------------ convert.py: filenames

\* Index of the last token of seq equal to tok, 0 when there is none (rfind).
LastIndexOf(seq, tok) ==
    LET hits == {i \in 1..Len(seq) : seq[i] = tok}
    IN IF hits = {} THEN 0 ELSE CHOOSE i \in hits : \A j \in hits : j <= i

\* file.filename or "upload.pptx"
EffectiveName(raw) == IF raw = <<>> THEN <<"upload", ".", "pptx">> ELSE raw

\* Path(filename).name: what follows the last separator
PathName(filename) ==
    SubSeq(filename, LastIndexOf(filename, "/") + 1, Len(filename))

\* Path(filename).suffix: from the last dot of the name on, unless that dot
\* leads or ends the name
PathSuffix(filename) ==
    LET name == PathName(filename)
        i == LastIndexOf(name, ".")
    IN IF 1 < i /\ i < Len(name) THEN SubSeq(name, i, Len(name)) ELSE <<>>

\* Path(filename).stem
PathStem(filename) ==
    LET name == PathName(filename)
        i == LastIndexOf(name, ".")
    IN IF 1 < i /\ i < Len(name) THEN SubSeq(name, 1, i - 1) ELSE name

\* str.lower() on the tokens of a suffix
LowerTok(tok) ==
    CASE tok = "PPTX" -> "pptx" [] tok = "PPT" -> "ppt" [] tok = "TXT" -> "txt"
      [] OTHER -> tok
LowerSeq(seq) == [i \in 1..Len(seq) |-> LowerTok(seq[i])]

\* the validation with the set of extensions lost: any extension passes
SuffixOk_AnyExtension(suffix) == suffix # <<>>

\* suffix not in {".pptx", ".ppt"} is the 400
SuffixOk(suffix) == suffix \in {<<".", "pptx">>, <<".", "ppt">>}

\* the validation every handler opens with
Validated(raw) == SuffixOk(LowerSeq(PathSuffix(EffectiveName(raw))))

\* the directory components of a filename (what precedes its name)
RECURSIVE DirParts(_)
DirParts(filename) ==
    LET i == LastIndexOf(filename, "/")
    IN IF i = 0 THEN <<>>
       ELSE LET head == SubSeq(filename, 1, i - 1)
            IN DirParts(head) \o <<PathName(head)>>

\* tmpdir_path / filename as the operating system resolves it: base is the
\* request's temporary directory, 0 the directory that holds the temporary
\* directories; a ".." component climbs out of the temporary directory
RECURSIVE Resolve(_, _, _)
Resolve(base, dirs, parts) ==
    IF parts = <<>> THEN [base |-> base, dirs |-> dirs]
    ELSE IF Head(parts) = <<"..">>
         THEN IF dirs # <<>>
              THEN Resolve(base, SubSeq(dirs, 1, Len(dirs) - 1), Tail(parts))
              ELSE Resolve(0, <<>>, Tail(parts))
         ELSE Resolve(base, Append(dirs, Head(parts)), Tail(parts))

InputPath(tmp, filename) ==
    LET at == Resolve(tmp, <<>>, DirParts(filename))
    IN [base |-> at.base, dirs |-> at.dirs, name |-> PathName(filename)]


\* --------------------------------------- convert.py: the external tools

\* What one subprocess.run(cmd, check=True) can do: exit 0, raise
\* FileNotFoundError (no such executable), raise CalledProcessError (with
\* stderr, with stdout only, with neither) or raise something else.
CliOutcomes == {"ok", "notfound", "nonzero_err", "nonzero_out", "nonzero_quiet", "other"}
CliFailures == CliOutcomes \ {"ok"}

\* for cmd in candidates: try run / return, except: last_err = e; continue.
\* outs[i] is what candidate i does when run; the result is the candidates
\* run, in order, and the error the loop ends with ("none" after a success).
RECURSIVE CandidateLoop(_, _, _, _)
CandidateLoop(outs, i, tried, last_err) ==
    IF i > Len(outs) THEN [tried |-> tried, last_err |-> last_err]
    ELSE IF outs[i] = "ok" THEN [tried |-> Append(tried, i), last_err |-> "none"]
    ELSE CandidateLoop(outs, i + 1, Append(tried, i), outs[i])

\* the loop keeping the first error instead of the last
_run_pptx2md_cli_FirstError(outs) ==
    LET loop_end == CandidateLoop(outs, 1, <<>>, "none")
    IN [tried |-> loop_end.tried,
        raised |-> IF loop_end.last_err = "none" THEN "none" ELSE outs[1]]

\* _run_pptx2md_cli: returns after the first success, raises last_err
\* after the last candidate
_run_pptx2md_cli(outs) ==
    LET loop_end == CandidateLoop(outs, 1, <<>>, "none")
    IN [tried |-> loop_end.tried, raised |-> loop_end.last_err]

\* the except clauses of /convert around _run_pptx2md_cli
Pptx2mdDetail(raised) ==
    CASE raised = "notfound" -> "pptx2md executable not found"
      [] raised = "nonzero_err" -> "pptx2md failed: stderr"
      [] raised = "nonzero_out" -> "pptx2md failed: stdout"
      [] raised = "nonzero_quiet" -> "pptx2md failed: str(e)"
      [] OTHER -> "Conversion error"

\* The conversion step of /convert: env.cli is what the four candidates do,
\* env.img whether the tool extracts an image beside the Markdown file.  In
\* the result, md says that <stem>.md now holds this request's Markdown and
\* img that an image of this request lies beside it.
Pptx2mdEnvs == [cli : [1..4 -> CliOutcomes], img : BOOLEAN]

Pptx2mdCall(env) ==
    LET run == _run_pptx2md_cli(env.cli)
    IN [env |-> env, tr |-> run,
        ok |-> run.raised = "none",
        detail |-> IF run.raised = "none" THEN "" ELSE Pptx2mdDetail(run.raised),
        md |-> run.raised = "none",
        img |-> env.img /\ run.raised = "none"]

\* The conversion step of /convert/pandoc: two candidates, last_err is
\* cleared by the success that breaks the loop.
PandocEnvs == [cli : [1..2 -> CliOutcomes]]

PandocCall(env) ==
    LET loop_end == CandidateLoop(env.cli, 1, <<>>, "none")
    IN [env |-> env, tr |-> loop_end,
        ok |-> loop_end.last_err = "none",
        detail |-> IF loop_end.last_err = "none" THEN ""
                   ELSE "pandoc failed or not installed",
        md |-> loop_end.last_err = "none",
        img |-> FALSE]

\* ---------------------------------------- convert.py: /convert/markitdown

Obj(text_content, content) ==
    [t |-> "obj", text_content |-> text_content, content |-> content]
Dict(text, content, markdown) ==
    [t |-> "dict", text |-> text, content |-> content, markdown |-> markdown]
Tuple(v) == [t |-> "tuple", v |-> v]

SeqShapes == {<<>>, <<Str(<<"t0">>)>>, <<Str(<<>>)>>, <<Num>>, <<Str(<<"t0">>), Num>>}

\* What md.convert may return.
MarkitdownResults ==
    {Str(<<>>), Str(<<"s">>), Null, Num}
    \cup {Obj(a, b) : a \in {Absent, Null, Str(<<>>), Str(<<"tc">>), Num},
                      b \in {Absent, Str(<<>>), Str(<<"c">>), Num}}
    \cup {Dict(a, b, c) : a \in {Absent, Str(<<>>), Str(<<"dt">>)},
                          b \in {Absent, Str(<<"dc">>), Num},
                          c \in {Absent, Str(<<>>), Str(<<"dm">>)}}
    \cup {Tuple(v) : v \in SeqShapes}
    \cup {List(v) : v \in SeqShapes}

\* the chain with isinstance(result, (tuple, list)) in its last branch
ExtractText_ListToo(result) ==
    IF result.t = "str" THEN result
    ELSE IF result.t = "obj" /\ result.text_content.t # "absent" THEN result.text_content
    ELSE IF result.t = "obj" /\ result.content.t = "str" THEN result.content
    ELSE IF result.t = "dict"
         THEN PyOr(PyOr(Get(result.text), Get(result.content)), Get(result.markdown))
    ELSE IF result.t \in {"tuple", "list"} /\ result.v # <<>>
         THEN IF result.v[1].t = "str" THEN result.v[1] ELSE Null
    ELSE Null

\* the if / elif chain over the result's type; None when no branch sets text
ExtractText(result) ==
    IF result.t = "str" THEN result
    ELSE IF result.t = "obj" /\ result.text_content.t # "absent" THEN result.text_content
    ELSE IF result.t = "obj" /\ result.content.t = "str" THEN result.content
    ELSE IF result.t = "dict"
         THEN PyOr(PyOr(Get(result.text), Get(result.content)), Get(result.markdown))
    ELSE IF result.t = "tuple" /\ result.v # <<>>
         THEN IF result.v[1].t = "str" THEN result.v[1] ELSE Null
    ELSE Null

MarkitdownEnvs ==
    {[raises |-> TRUE, result |-> Null]}
    \cup {[raises |-> FALSE, result |-> res] : res \in MarkitdownResults}

\* the try block: convert, pick the text, write it; every exception is the
\* 500 "markitdown failed: <exception>"
MarkitdownCall(env) ==
    LET text == ExtractText(env.result)
        failure == IF env.raises THEN "markitdown failed: convert raised"
                   ELSE IF ~Truthy(text) THEN "markitdown failed: Unexpected MarkItDown result"
                   ELSE IF text.t # "str" THEN "markitdown failed: write_text TypeError"
                   ELSE ""
    IN [env |-> env, tr |-> [written |-> IF failure = "" THEN text ELSE Null],
        ok |-> failure = "", detail |-> failure, md |-> failure = "", img |-> FALSE]


\* ---------------------------------------- convert.py: /convert/pptx_to_md

MdObj(markdown) == [t |-> "mdobj", markdown |-> markdown]

\* What one candidate function of the pptx_to_md module does: it is missing
\* (getattr gives None), it raises, or it returns a value.
FuncBehaviours ==
    {[k |-> "missing", ret |-> Null], [k |-> "raises", ret |-> Null]}
    \cup {[k |-> "returns", ret |-> v] :
            v \in {Str(<<>>), Str(<<"m">>), Tuple(<<Str(<<"m">>)>>), Tuple(<<Num>>),
                   MdObj(Str(<<"m">>)), Null}}

\* the three return shapes probed after a call; text is left as it was when
\* none matches
ShapeText(res, text) ==
    IF res.t = "str" THEN res
    ELSE IF res.t = "tuple" /\ res.v # <<>> /\ res.v[1].t = "str" THEN res.v[1]
    ELSE IF res.t = "mdobj" /\ res.markdown.t = "str" THEN res.markdown
    ELSE text

\* for fname in ("convert", "convert_pptx_to_markdown", "pptx_to_markdown"):
\* the state carried through the loop is text, err and the functions called
RECURSIVE ProbeFunctions(_, _, _, _, _)
ProbeFunctions(funcs, i, text, err, called) ==
    IF i > Len(funcs) THEN [text |-> text, err |-> err, called |-> called]
    ELSE IF funcs[i].k = "missing" THEN ProbeFunctions(funcs, i + 1, text, err, called)
    ELSE IF funcs[i].k = "raises"
         THEN ProbeFunctions(funcs, i + 1, text, "raised", Append(called, i))
    ELSE LET got == ShapeText(funcs[i].ret, text)
         IN IF Truthy(got)
            THEN [text |-> got, err |-> err, called |-> Append(called, i)]
            ELSE ProbeFunctions(funcs, i + 1, got, err, Append(called, i))

\* err as the in-process block leaves it: the import error, the "could not
\* find a suitable conversion function" RuntimeError, or what an earlier
\* candidate raised (the inner except stores it and nothing clears it)
InProcess(env) ==
    IF ~env.import THEN [text |-> Null, err |-> "import", called |-> <<>>, wrote |-> FALSE]
    ELSE LET probe == ProbeFunctions(env.funcs, 1, Null, "none", <<>>)
         IN IF Truthy(probe.text)
            THEN [text |-> probe.text, err |-> probe.err, called |-> probe.called,
                  wrote |-> TRUE]
            ELSE [text |-> probe.text, err |-> "no suitable function",
                  called |-> probe.called, wrote |-> FALSE]

PptxToMdEnvs ==
    [import : BOOLEAN, funcs : [1..3 -> FuncBehaviours],
     cli : [1..2 -> {"ok", "notfound", "nonzero_err"}]]

\* the in-process block, then "if err:" the two CLI candidates
PptxToMdCall(env) ==
    LET inproc == InProcess(env)
        cli == IF inproc.err # "none" THEN CandidateLoop(env.cli, 1, <<>>, "none")
               ELSE [tried |-> <<>>, last_err |-> "none"]
    IN [env |-> env,
        tr |-> [text |-> inproc.text, wrote |-> inproc.wrote, err |-> inproc.err,
                called |-> inproc.called, cli_tried |-> cli.tried],
        ok |-> cli.last_err = "none",
        detail |-> IF cli.last_err = "none" THEN "" ELSE "pptx_to_md not installed or failed",
        md |-> inproc.wrote \/ (inproc.err # "none" /\ cli.last_err = "none"),
        img |-> FALSE]


\* ------------------------------------------- convert.py: output directory

\* The files of one output directory OUTPUT_BASE/<stem>: "md" is <stem>.md,
\* "img" an extracted asset, "s1" and "s2" other Markdown files (s1.md sorts
\* before s2.md).  A file's content is the sequence of the requests whose
\* conversions produced its parts; NoFile marks a file that does not exist.
OutNames == {"md", "img", "s1", "s2"}
OtherMdNames == <<"s1", "s2">>
NoFile == <<0>>
NoFiles == [n \in OutNames |-> NoFile]
NoDir == [exists |-> FALSE, files |-> NoFiles]

\* output_dir.mkdir(parents=True, exist_ok=True)
Mkdir(dir) == [dir EXCEPT !.exists = TRUE]

\* what a finished conversion call leaves in the directory
WriteCall(dir, me, call) ==
    [dir EXCEPT !.files = [n \in OutNames |->
        IF (n = "md" /\ call.md) \/ (n = "img" /\ call.img) THEN <<me>> ELSE @[n]]]

\* _zip_directory: one entry per file under the directory
_zip_directory(dir) ==
    [n \in {m \in OutNames : dir.files[m] # NoFile} |-> dir.files[n]]

\* -------------------------------------------- convert.py: /convert/aspose

\* pres is Presentation(path), new_api the MarkdownSaveOptions import and
\* save, old_api the save of the except branch; wrote names the Markdown
\* files a save that succeeds writes into the output directory.
AsposeEnvs ==
    [pres : {"ok", "raises"}, new_api : {"ok", "raises"}, old_api : {"ok", "raises"},
     wrote : SUBSET {"md", "s1", "s2"}]

\* "\n\n".join(p.read_text() for p in sorted(mds))
JoinSorted(files, mds) ==
    Concat([i \in 1..Len(OtherMdNames) |->
               IF OtherMdNames[i] \in mds THEN files[OtherMdNames[i]] ELSE <<>>])

\* if not output_md.exists(): rename the only *.md, or merge all of them
Canonicalize(files) ==
    LET mds == {n \in {"s1", "s2"} : files[n] # NoFile}
    IN IF files["md"] # NoFile \/ mds = {} THEN files
       ELSE IF Cardinality(mds) = 1
            THEN LET only == CHOOSE n \in mds : TRUE
                 IN [files EXCEPT !["md"] = files[only], ![only] = NoFile]
            ELSE [files EXCEPT !["md"] = JoinSorted(files, mds)]

\* the try block of convert_with_aspose
AsposeCall(dir, me, env) ==
    LET saved == env.pres = "ok" /\ (env.new_api = "ok" \/ env.old_api = "ok")
        after == [n \in OutNames |-> IF n \in env.wrote THEN <<me>> ELSE dir.files[n]]
    IN [env |-> env, tr |-> [saved |-> saved],
        ok |-> saved,
        detail |-> IF saved THEN "" ELSE "Aspose conversion failed",
        dir |-> IF saved THEN [dir EXCEPT !.files = Canonicalize(after)] ELSE dir]


\* ------------------------------------------------ convert.py: the server

Endpoints == {"/convert", "/convert/pptx2md", "/convert/markitdown",
              "/convert/pandoc", "/convert/pptx_to_md", "/convert/aspose"}
\* /convert/pptx2md awaits convert_ppt_to_markdown
Pptx2mdEps == {"/convert", "/convert/pptx2md"}
\* the handlers that import their library right after the validation
ImportingEps == {"/convert/markitdown", "/convert/aspose"}

\* The filenames uploads come with (<<>> is an upload without a filename).
FileNames ==
    {<<"a", ".", "pptx">>, <<"a", ".", "PPT">>, <<"a", ".", "txt">>,
     <<".", "pptx">>, <<"..", "/", "a", ".", "pptx">>,
     <<"sub", "/", "a", ".", "pptx">>, <<>>}
Stems == {PathStem(EffectiveName(f)) : f \in FileNames}

\* The conversion calls of each endpoint, and the same calls with what the
\* tools did left out (all that the other requests can see of a call).
Hidden(call) == [call EXCEPT !.env = "hidden", !.tr = "hidden"]
Pptx2mdCalls == {Pptx2mdCall(env) : env \in Pptx2mdEnvs}
PandocCalls == {PandocCall(env) : env \in PandocEnvs}
MarkitdownCalls == {MarkitdownCall(env) : env \in MarkitdownEnvs}
PptxToMdCalls == {PptxToMdCall(env) : env \in PptxToMdEnvs}
Pptx2mdEffects == {Hidden(c) : c \in Pptx2mdCalls}
PandocEffects == {Hidden(c) : c \in PandocCalls}
MarkitdownEffects == {Hidden(c) : c \in MarkitdownCalls}
PptxToMdEffects == {Hidden(c) : c \in PptxToMdCalls}

CallsOf(e, keep) ==
    CASE e \in Pptx2mdEps -> IF keep THEN Pptx2mdCalls ELSE Pptx2mdEffects
      [] e = "/convert/pandoc" -> IF keep THEN PandocCalls ELSE PandocEffects
      [] e = "/convert/markitdown" -> IF keep THEN MarkitdownCalls ELSE MarkitdownEffects
      [] e = "/convert/pptx_to_md" -> IF keep THEN PptxToMdCalls ELSE PptxToMdEffects

NoResp == [status |-> 0, detail |-> "", archive |-> <<>>]
NoTrace == [env |-> "hidden", tr |-> "hidden"]
Response(status, detail) == [status |-> status, detail |-> detail, archive |-> <<>>]

\* The state in which nothing has been requested yet.
ServerIdle ==
    /\ pc = [r \in Reqs |-> "idle"]
    /\ ep = [r \in Reqs |-> "none"]
    /\ fname = [r \in Reqs |-> <<>>]
    /\ tmpdir = [r \in Reqs |-> 0]
    /\ acts = [r \in Reqs |-> {}]
    /\ resp = [r \in Reqs |-> NoResp]
    /\ trace = [r \in Reqs |-> NoTrace]
    /\ loop = 0
    /\ health = "none"
    /\ tmpDirs = {}
    /\ tmpFiles = {}
    /\ outfs = [s \in Stems |-> NoDir]

Init == ServerIdle /\ input = <<>> /\ output = <<>>

filename(r) == EffectiveName(fname[r])
stem(r) == PathStem(filename(r))

\* A client sends a request: it waits for the event loop to dispatch it.
Receive(r, eps, names) ==
    /\ pc[r] = "idle"
    /\ \E e \in eps, f \in names :
         /\ ep' = [ep EXCEPT ![r] = e]
         /\ fname' = [fname EXCEPT ![r] = f]
    /\ pc' = [pc EXCEPT ![r] = "received"]
    /\ UNCHANGED <<tmpdir, acts, resp, trace, loop, health, tmpDirs, tmpFiles,
                   outfs, input, output>>

\* GET /health, dispatched by the event loop
Health ==
    /\ loop = 0
    /\ health' = "ok"
    /\ UNCHANGED <<pc, ep, fname, tmpdir, acts, resp, trace, loop, tmpDirs,
                   tmpFiles, outfs, input, output>>

\* The handler from its first line to "await file.read()": the validation,
\* the import of the library, the TemporaryDirectory and, in /convert, the
\* output directory.  It runs on the event loop and gives it up at the await.
Start(r) ==
    /\ loop = 0
    /\ pc[r] = "received"
    /\ UNCHANGED <<ep, fname, trace, loop, health, tmpFiles, input, output>>
    /\ IF ~Validated(fname[r])
       THEN /\ resp' = [resp EXCEPT ![r] =
                           Response(400, "Only .ppt or .pptx files are supported")]
            /\ pc' = [pc EXCEPT ![r] = "done"]
            /\ UNCHANGED <<tmpdir, acts, tmpDirs, outfs>>
       ELSE \E import_ok \in (IF ep[r] \in ImportingEps THEN BOOLEAN ELSE {TRUE}) :
              LET imported == IF ep[r] \in ImportingEps THEN {"import"} ELSE {}
              IN IF ~import_ok
                 THEN /\ resp' = [resp EXCEPT ![r] = Response(500, "Missing dependency")]
                      /\ pc' = [pc EXCEPT ![r] = "done"]
                      /\ acts' = [acts EXCEPT ![r] = @ \cup imported]
                      /\ UNCHANGED <<tmpdir, tmpDirs, outfs>>
                 ELSE \E id \in TmpIds \ tmpDirs :
                        /\ tmpDirs' = tmpDirs \cup {id}
                        /\ tmpdir' = [tmpdir EXCEPT ![r] = id]
                        /\ IF ep[r] \in Pptx2mdEps
                           THEN /\ outfs' = [outfs EXCEPT ![stem(r)] = Mkdir(@)]
                                /\ acts' = [acts EXCEPT ![r] =
                                               @ \cup imported \cup {"tmpdir", "outdir"}]
                           ELSE /\ outfs' = outfs
                                /\ acts' = [acts EXCEPT ![r] =
                                               @ \cup imported \cup {"tmpdir"}]
                        /\ pc' = [pc EXCEPT ![r] = "reading"]
                        /\ UNCHANGED resp

\* Leaving the "with tempfile.TemporaryDirectory()" block, by return or by
\* exception: the directory and all under it are removed, the response goes
\* out and the event loop is free again.
Exit(r, response) ==
    /\ tmpDirs' = tmpDirs \ {tmpdir[r]}
    /\ tmpFiles' = {f \in tmpFiles : f.path.base # tmpdir[r]}
    /\ resp' = [resp EXCEPT ![r] = response]
    /\ pc' = [pc EXCEPT ![r] = "done"]
    /\ loop' = 0

\* input_path.write_bytes(contents): the parent directory must exist
WriteBytes(files, path, r) ==
    {f \in files : f.path # path} \cup {[path |-> path, by |-> r]}
ParentExists(path) ==
    path.dirs = <<>> /\ (path.base = 0 \/ path.base \in tmpDirs)

\* The handler resumes after the await and stays on the event loop to its
\* end: it stages the upload, makes the output directory (the handlers
\* other than /convert) and enters the blocking conversion call.
Resume(r) ==
    /\ loop = 0
    /\ pc[r] = "reading"
    /\ UNCHANGED <<ep, fname, tmpdir, trace, health, input, output>>
    /\ LET path == InputPath(tmpdir[r], filename(r))
       IN \E fault \in BOOLEAN :
            IF fault \/ ~ParentExists(path)
            THEN /\ Exit(r, Response(500, "Internal Server Error"))
                 /\ UNCHANGED <<acts, outfs>>
            ELSE /\ tmpFiles' = WriteBytes(tmpFiles, path, r)
                 /\ outfs' = [outfs EXCEPT ![stem(r)] = Mkdir(@)]
                 /\ acts' = [acts EXCEPT ![r] = @ \cup {"write", "outdir"}]
                 /\ pc' = [pc EXCEPT ![r] = "converting"]
                 /\ loop' = r
                 /\ UNCHANGED <<tmpDirs, resp>>

\* The blocking conversion call returns (every handler but /convert/aspose).
Convert(r, keep) ==
    /\ loop = r
    /\ pc[r] = "converting"
    /\ ep[r] # "/convert/aspose"
    /\ UNCHANGED <<ep, fname, tmpdir, health, input, output>>
    /\ acts' = [acts EXCEPT ![r] = @ \cup {"backend"}]
    /\ \E call \in CallsOf(ep[r], keep) :
         /\ trace' = [trace EXCEPT ![r] = [env |-> call.env, tr |-> call.tr]]
         /\ outfs' = [outfs EXCEPT ![stem(r)] = WriteCall(@, r, call)]
         /\ IF call.ok
            THEN /\ pc' = [pc EXCEPT ![r] = "converted"]
                 /\ UNCHANGED <<resp, loop, tmpDirs, tmpFiles>>
            ELSE Exit(r, Response(500, call.detail))

\* The blocking conversion of /convert/aspose returns.
ConvertAspose(r, keep) ==
    /\ loop = r
    /\ pc[r] = "converting"
    /\ ep[r] = "/convert/aspose"
    /\ UNCHANGED <<ep, fname, tmpdir, health, input, output>>
    /\ acts' = [acts EXCEPT ![r] = @ \cup {"backend"}]
    /\ \E env \in AsposeEnvs :
         LET call == AsposeCall(outfs[stem(r)], r, env)
         IN /\ trace' = [trace EXCEPT ![r] =
                            IF keep THEN [env |-> call.env, tr |-> call.tr] ELSE NoTrace]
            /\ outfs' = [outfs EXCEPT ![stem(r)] = call.dir]
            /\ IF call.ok
               THEN /\ pc' = [pc EXCEPT ![r] = "converted"]
                    /\ UNCHANGED <<resp, loop, tmpDirs, tmpFiles>>
               ELSE Exit(r, Response(500, call.detail))

\* data = _zip_directory(output_dir); return StreamingResponse(...)
Archive(r) ==
    /\ loop = r
    /\ pc[r] = "converted"
    /\ UNCHANGED <<ep, fname, tmpdir, acts, trace, health, outfs, input, output>>
    /\ \E fault \in BOOLEAN :
         IF fault THEN Exit(r, Response(500, "Internal Server Error"))
         ELSE Exit(r, [status |-> 200, detail |-> "",
                       archive |-> _zip_directory(outfs[stem(r)])])

Next ==
    \/ \E r \in Reqs : Receive(r, Endpoints, FileNames)
    \/ \E r \in Reqs : Start(r)
    \/ \E r \in Reqs : Resume(r)
    \/ \E r \in Reqs : Convert(r, FALSE)
    \/ \E r \in Reqs : ConvertAspose(r, FALSE)
    \/ \E r \in Reqs : Archive(r)
    \/ Health

Spec == Init /\ [][Next]_vars


\* one request at a time, on any endpoint with any filename
NextSingle ==
    \/ Receive(1, Endpoints, FileNames)
    \/ Start(1)
    \/ Resume(1)
    \/ Convert(1, FALSE)
    \/ ConvertAspose(1, FALSE)
    \/ Archive(1)

SpecSingle == Init /\ [][NextSingle]_vars

\* ------------------------------------ one backend at a time, calls recorded

A_PPTX == <<"a", ".", "pptx">>

\* /convert and its alias: request 1 alone, what the candidates did is kept
NextPptx2md ==
    \/ Receive(1, Pptx2mdEps, {A_PPTX, <<"a", ".", "PPT">>, <<"a", ".", "txt">>})
    \/ Start(1)
    \/ Resume(1)
    \/ Convert(1, TRUE)
    \/ Archive(1)

SpecPptx2md == Init /\ [][NextPptx2md]_vars

\* /convert/markitdown: request 1 alone, the result of md.convert is kept
NextMarkitdown ==
    \/ Receive(1, {"/convert/markitdown"}, {A_PPTX, <<"a", ".", "txt">>})
    \/ Start(1)
    \/ Resume(1)
    \/ Convert(1, TRUE)
    \/ Archive(1)

SpecMarkitdown == Init /\ [][NextMarkitdown]_vars

\* /convert/pptx_to_md: request 1 alone, what the module and the CLI did is kept
NextPptxToMd ==
    \/ Receive(1, {"/convert/pptx_to_md"}, {A_PPTX})
    \/ Start(1)
    \/ Resume(1)
    \/ Convert(1, TRUE)
    \/ Archive(1)

SpecPptxToMd == Init /\ [][NextPptxToMd]_vars

\* /convert/aspose: uploads of a.pptx one after the other (a request is sent
\* when no other is under way), what the SDK wrote is kept
ReceiveAlone(r, eps, names) ==
    /\ \A other \in Reqs \ {r} : pc[other] \in {"idle", "done"}
    /\ Receive(r, eps, names)

NextAspose ==
    \/ \E r \in Reqs : ReceiveAlone(r, {"/convert/aspose"}, {A_PPTX})
    \/ \E r \in Reqs : Start(r)
    \/ \E r \in Reqs : Resume(r)
    \/ \E r \in Reqs : ConvertAspose(r, TRUE)
    \/ \E r \in Reqs : Archive(r)

SpecAspose == Init /\ [][NextAspose]_vars

\* --------------------------------------------- json_to_md.py as a program

Pending == [done |-> FALSE, val |-> <<>>]

\* _escape_md applied to every text of at most MaxLen characters
InitEscape == ServerIdle /\ input \in SeqsUpTo(Chars, MaxLen) /\ output = Pending

Escape ==
    /\ ~output.done
    /\ output' = [done |-> TRUE, val |-> _escape_md(input)]
    /\ UNCHANGED <<pc, ep, fname, tmpdir, acts, resp, trace, loop, health,
                   tmpDirs, tmpFiles, outfs, input>>

SpecEscape == InitEscape /\ [][Escape]_vars

\* The decoded JSON documents json_to_markdown is applied to.
Item(subj, title, code, desc, hashtag, id_course, fields_opt, fields) ==
    [t |-> "dict", subj |-> subj, title |-> title, code |-> code, desc |-> desc,
     hashtag |-> hashtag, id_course |-> id_course, fields_opt |-> fields_opt,
     fields |-> fields]
Field(vn, en) == [t |-> "dict", vn |-> vn, en |-> en]
Doc(message, Message, data) == [message |-> message, Message |-> Message, data |-> data]

ScalarVals == {Absent, Null, Str(<<>>), Str(<<"x">>)}
HashtagVals ==
    {Absent, Null, EmptyList, List(<<Str(<<>>)>>), List(<<Str(<<"h">>)>>),
     List(<<Str(<<"h">>), Str(<<>>), Str(<<"g">>)>>), Str(<<"h">>)}
FieldVals ==
    {Absent, EmptyList, Str(<<"x">>),
     List(<<Field(Str(<<"v">>), Str(<<"e">>))>>),
     List(<<Field(Str(<<>>), Absent)>>),
     List(<<Field(Null, Str(<<"e">>))>>),
     List(<<Num, Field(Str(<<"v">>), Absent), Field(Str(<<"w">>), Absent)>>)}

\* one record, its six optional values varied
FieldItems ==
    {Item(Absent, Str(<<"t">>), c, d, h, i, fo, f) :
        c \in ScalarVals, d \in ScalarVals, h \in HashtagVals, i \in ScalarVals,
        fo \in {Absent, List(<<Field(Str(<<"o">>), Absent)>>)}, f \in FieldVals}

\* records whose subject and title vary, and an element that is no dict
GroupItems ==
    {Item(s, t, Absent, Absent, Absent, Absent, Absent, Absent) :
        s \in {Absent, Null, Str(<<"B">>), Str(<<"a">>), Str(<<"b">>)},
        t \in {Absent, Str(<<"t">>), Str(<<"#">>)}}
    \cup {Num}

JsonInputs ==
    {Doc(Absent, Absent, List(<<it>>)) : it \in FieldItems}
    \cup {Doc(m, M, List(d)) : m \in {Absent, Str(<<"m">>)}, M \in {Absent, Str(<<"M">>)},
                               d \in SeqsUpTo(GroupItems, MaxItems)}
    \cup {Doc(Absent, Absent, d) : d \in {Absent, Null, Str(<<"x">>)}}

InitJson == ServerIdle /\ input \in JsonInputs /\ output = Pending

Render ==
    /\ ~output.done
    /\ output' = [done |-> TRUE, val |-> json_to_markdown(input)]
    /\ UNCHANGED <<pc, ep, fname, tmpdir, acts, resp, trace, loop, health,
                   tmpDirs, tmpFiles, outfs, input>>

SpecJson == InitJson /\ [][Render]_vars


\* ================================================================ claims

\* ---------------------------------------------------------------- C5

\* scanning left to right: a backslash escapes the character after it, and
\* no special character stands without its backslash
RECURSIVE NoUnescaped(_)
NoUnescaped(text) ==
    IF text = <<>> THEN TRUE
    ELSE IF Head(text) = BSL THEN Len(text) >= 2 /\ NoUnescaped(SubSeq(text, 3, Len(text)))
    ELSE Head(text) \notin Special /\ NoUnescaped(Tail(text))

\* the text with every escaping backslash taken away
RECURSIVE Unescaped(_)
Unescaped(text) ==
    IF text = <<>> THEN <<>>
    ELSE IF Head(text) = BSL /\ Len(text) >= 2
         THEN <<text[2]>> \o Unescaped(SubSeq(text, 3, Len(text)))
    ELSE <<Head(text)>> \o Unescaped(Tail(text))

\* C5: in the output of _escape_md every occurrence of the seven characters
\* backslash, grave accent, *, _, [, ], # of the input is preceded by an
\* escaping backslash (taking the escapes away gives the input back) and no
\* unescaped occurrence of any of them remains.
C5_AllEscaped ==
    output.done => NoUnescaped(output.val) /\ Unescaped(output.val) = input

\* ---------------------------------------------------------------- C6

\* a source value that is present and non-empty: not missing, not null, not
\* an empty text, not an empty list, not a list of empty texts only
NonEmptySource(val) ==
    CASE val.t \in {"absent", "null"} -> FALSE
      [] val.t = "str" -> val.v # <<>>
      [] val.t = "list" -> \E i \in 1..Len(val.v) : val.v[i] # Str(<<>>)
      [] OTHER -> TRUE

\* the sub-bullets C6 expects of one record, in the fixed order
ExpectedLabels(item) ==
    LET fields == PyOr(PyOr(Get(item.fields_opt), Get(item.fields)), EmptyList)
    IN (IF NonEmptySource(item.code) THEN <<"ID">> ELSE <<>>)
       \o (IF NonEmptySource(item.desc) THEN <<"Mo ta">> ELSE <<>>)
       \o (IF NonEmptySource(item.hashtag) THEN <<"Hashtag">> ELSE <<>>)
       \o (IF NonEmptySource(item.id_course) THEN <<"id_course">> ELSE <<>>)
       \o (IF NamesOf(fields, "vn") # <<>> THEN <<"Linh vuc">> ELSE <<>>)
       \o (IF NamesOf(fields, "en") # <<>> THEN <<"Linh vuc (EN)">> ELSE <<>>)

\* the sub-bullet labels of every record of the output, record by record
RECURSIVE RecordLabels(_)
RecordLabels(lines) ==
    IF lines = <<>> THEN <<>>
    ELSE LET before == RecordLabels(SubSeq(lines, 1, Len(lines) - 1))
             last == lines[Len(lines)]
         IN IF last.k = "title" THEN Append(before, <<>>)
            ELSE IF last.k = "sub" /\ before # <<>>
                 THEN [before EXCEPT ![Len(before)] = Append(@, last.label)]
            ELSE before

\* the records in the order json_to_markdown emits them
EmittedItems(data) ==
    LET subjects == SortedSubjects(SubjectKeys(data))
    IN Concat([i \in 1..Len(subjects) |-> ItemsOf(data, subjects[i])])

\* C6: every record emits its title bullet and then exactly the sub-bullets
\* whose source value is present and non-empty, in the order ID, Mo ta,
\* Hashtag, id_course, Linh vuc, Linh vuc (EN); a record whose six values
\* are all absent or empty emits the title bullet alone.
C6_SubBullets ==
    (output.done /\ output.val.ok) =>
        LET items == EmittedItems(input.data.v)
            labels == RecordLabels(output.val.lines)
        IN /\ Len(labels) = Len(items)
           /\ \A k \in 1..Len(items) : labels[k] = ExpectedLabels(items[k])


\* ---------------------------------------------------------------- C1

\* the upload's lower-cased extension is neither .ppt nor .pptx: its name
\* does not end in a dot (not the name's first character) followed by ppt
\* or pptx in any letter case
BadExtension(name) ==
    LET n == PathName(name)
    IN ~(/\ Len(n) >= 3
         /\ n[Len(n) - 1] = "."
         /\ n[Len(n)] \in {"pptx", "PPTX", "ppt", "PPT"})

\* C1: on every endpoint a request whose filename has an extension other
\* than .ppt / .pptx ends with the 400, and up to that response its handler
\* has done nothing: no temporary directory, no output directory, no bytes
\* written, no library imported, no backend run.
C1_RejectedUntouched ==
    \A r \in Reqs :
        (pc[r] # "idle" /\ BadExtension(filename(r))) =>
            /\ pc[r] \in {"received", "done"}
            /\ acts[r] = {}
            /\ tmpdir[r] = 0
            /\ \A f \in tmpFiles : f.by # r
            /\ pc[r] = "done" => resp[r].status = 400

\* a.txt was answered 400 on /convert/aspose, nothing imported or created
C1_Witness ==
    \E r \in Reqs :
        /\ pc[r] = "done" /\ resp[r].status = 400
        /\ ep[r] = "/convert/aspose" /\ fname[r] = <<"a", ".", "txt">>
        /\ acts[r] = {} /\ tmpDirs = {} /\ ~outfs[<<"a">>].exists

\* ---------------------------------------------------------------- C2

InFlight(r) == pc[r] \in {"reading", "converting", "converted"}

\* C2: once a request that passed the validation has ended (ZIP response,
\* 500 of a failure handler, uncaught I/O fault), its temporary directory
\* and the input file it staged no longer exist.
C2_StagingReleased ==
    \A r \in Reqs :
        (pc[r] = "done" /\ Validated(fname[r])) =>
            /\ \A f \in tmpFiles : f.by # r
            /\ tmpdir[r] \in tmpDirs =>
                   \E other \in Reqs \ {r} : InFlight(other) /\ tmpdir[other] = tmpdir[r]

\* ---------------------------------------------------------------- C4

\* C4: while one request is in its conversion step, waiting on the external
\* tool, the server can go on with another request: a request that has
\* arrived can be dispatched (validated, answered 400) and GET /health can
\* be answered.
C4_ConversionOffLoop ==
    \A r \in Reqs :
        pc[r] = "converting" =>
            /\ ENABLED Health
            /\ \A other \in Reqs \ {r} : pc[other] = "received" => ENABLED Start(other)

\* ---------------------------------------------------------------- C9

\* C9: nothing guards OUTPUT_BASE/<stem>: when one request has written its
\* conversion output there and has not archived it yet, a concurrent request
\* of the same stem that waits to stage and convert can go on and write into
\* the same directory, so that both have written before either has archived;
\* and two requests in flight never share a temporary directory.
C9_OutputDirUnguarded ==
    \A r \in Reqs : \A other \in Reqs \ {r} :
        /\ (InFlight(r) /\ InFlight(other)) => tmpdir[r] # tmpdir[other]
        /\ (pc[r] = "converted" /\ pc[other] = "reading" /\ stem(r) = stem(other))
               => ENABLED Resume(other)


\* ---------------------------------------------------------------- C7

\* request 1's conversion call has returned and what it did is on record
Called(r) == pc[r] \in {"converted", "done"} /\ "backend" \in acts[r]

\* the number of the first candidate that exits successfully, 0 for none
FirstOk(outs) ==
    IF \A i \in 1..Len(outs) : outs[i] # "ok" THEN 0
    ELSE CHOOSE i \in 1..Len(outs) :
             outs[i] = "ok" /\ \A j \in 1..(i - 1) : outs[j] # "ok"

\* C7: _run_pptx2md_cli runs its four candidates in the listed order, each
\* at most once and none after the first success; it returns normally
\* exactly when one succeeded; when all four fail it raises the failure of
\* the fourth (python -m pptx2md), and /convert answers 500 with that
\* failure: "executable not found" for a missing executable, the captured
\* stderr, else stdout, for a non-zero exit.
C7_CandidatesInOrder ==
    Called(1) =>
        LET outs == trace[1].env.cli
            run == trace[1].tr
            first == FirstOk(outs)
        IN /\ run.tried = [i \in 1..(IF first = 0 THEN 4 ELSE first) |-> i]
           /\ (run.raised = "none") <=> (first # 0)
           /\ first # 0 => (pc[1] = "converted" \/ resp[1].detail \notin
                               {"pptx2md executable not found", "pptx2md failed: stderr",
                                "pptx2md failed: stdout", "pptx2md failed: str(e)",
                                "Conversion error"})
           /\ first = 0 =>
                /\ run.raised = outs[4]
                /\ pc[1] = "done" /\ resp[1].status = 500
                /\ outs[4] = "notfound" =>
                       resp[1].detail = "pptx2md executable not found"
                /\ outs[4] = "nonzero_err" => resp[1].detail = "pptx2md failed: stderr"
                /\ outs[4] = "nonzero_out" => resp[1].detail = "pptx2md failed: stdout"

\* pptx2md is not on the PATH (three times no executable) and python -m
\* pptx2md exits non-zero: the 500 carries the stderr of the fourth
C7_Witness ==
    /\ Called(1)
    /\ trace[1].env.cli = <<"notfound", "notfound", "notfound", "nonzero_err">>
    /\ trace[1].tr.tried = <<1, 2, 3, 4>>
    /\ resp[1].status = 500 /\ resp[1].detail = "pptx2md failed: stderr"

\* ---------------------------------------------------------------- C3

\* candidate function i returns non-empty Markdown text in one of the three
\* shapes (a string, a tuple that starts with a string, an object with a
\* string markdown attribute)
ReturnsText(beh) == beh.k = "returns" /\ Truthy(ShapeText(beh.ret, Null))

\* C3: in /convert/pptx_to_md, whenever a candidate function returns
\* non-empty Markdown text (the module imported; earlier candidates may have
\* been missing, returned nothing usable or raised), that text is written
\* to <stem>.md, no CLI command is run and the request does not end in the
\* 500 of the CLI fallback.
C3_FallbackOnlyOnTotalFailure ==
    (Called(1) /\ trace[1].env.import
        /\ \E i \in 1..3 : ReturnsText(trace[1].env.funcs[i])) =>
        LET funcs == trace[1].env.funcs
            i == CHOOSE k \in 1..3 :
                     ReturnsText(funcs[k]) /\ \A j \in 1..(k - 1) : ~ReturnsText(funcs[j])
        IN /\ trace[1].tr.wrote
           /\ trace[1].tr.text = ShapeText(funcs[i].ret, Null)
           /\ trace[1].tr.cli_tried = <<>>
           /\ resp[1].detail # "pptx_to_md not installed or failed"


\* ---------------------------------------------------------------- C8

IsText(val) == val.t = "str" /\ val.v # <<>>

\* the first truthy of the values under text, content and markdown, None
\* for a missing key
FirstOfKeys(d) ==
    IF Truthy(Get(d.text)) THEN d.text
    ELSE IF Truthy(Get(d.content)) THEN d.content
    ELSE Get(d.markdown)

\* The value the recognized shapes yield, probed in the order: a string, an
\* object with a text-content attribute, an object with a string content
\* attribute, a mapping, a non-empty sequence of the kinds in seqs whose
\* first element is a string; the first shape the result has wins.
ShapeValue(result, seqs) ==
    CASE result.t = "str" -> result
      [] result.t = "obj" /\ result.text_content.t # "absent" -> result.text_content
      [] result.t = "obj" /\ result.text_content.t = "absent"
            /\ result.content.t = "str" -> result.content
      [] result.t = "dict" -> FirstOfKeys(result)
      [] result.t \in seqs /\ result.v # <<>> /\ result.v[1].t = "str" -> result.v[1]
      [] OTHER -> Null

Returned(r) == Called(r) /\ ~trace[r].env.raises
Accepted(r) == pc[r] = "converted" \/ resp[r].detail \notin
                   {"markitdown failed: Unexpected MarkItDown result",
                    "markitdown failed: write_text TypeError",
                    "markitdown failed: convert raised"}

\* C8 as stated: the result of md.convert is accepted (written to <stem>.md,
\* answered with the ZIP) exactly when the first shape it has, a tuple or a
\* list counting as the sequence shape, carries non-empty text; otherwise
\* the request ends in the 500.
C8_TupleOrList ==
    Returned(1) =>
        LET val == ShapeValue(trace[1].env.result, {"tuple", "list"})
        IN /\ Accepted(1) <=> IsText(val)
           /\ Accepted(1) => trace[1].tr.written = val
           /\ ~Accepted(1) => resp[1].status = 500

\* C8 amended: the sequence shape is the tuple alone, a list is not
\* recognized; the result is accepted exactly when the first shape it has
\* carries non-empty text, and that text is what is written; otherwise the
\* request ends in the 500 "markitdown failed", which is the "Unexpected
\* MarkItDown result" failure exactly when the shapes yield nothing or an
\* empty value (a non-empty value that is no string fails in the write).
C8_TupleOnly ==
    Returned(1) =>
        LET val == ShapeValue(trace[1].env.result, {"tuple"})
        IN /\ Accepted(1) <=> IsText(val)
           /\ Accepted(1) => trace[1].tr.written = val
           /\ ~Accepted(1) =>
                /\ resp[1].status = 500
                /\ (resp[1].detail = "markitdown failed: Unexpected MarkItDown result")
                       <=> ~Truthy(val)

\* a tuple whose first element is a string was converted and answered
\* with the ZIP that holds its text as <stem>.md
C8_Witness ==
    /\ Returned(1)
    /\ trace[1].env.result = Tuple(<<Str(<<"t0">>), Num>>)
    /\ trace[1].tr.written = Str(<<"t0">>)
    /\ pc[1] = "done" /\ resp[1].status = 200
    /\ "md" \in DOMAIN resp[1].archive

\* ---------------------------------------------------------------- C10

\* what <stem>.md holds when it is built from the files request r's own
\* conversion wrote: the SDK's <stem>.md, else its only file renamed, else
\* its files joined in sorted order
FromOwnFiles(r, wrote) ==
    IF "md" \in wrote \/ Cardinality(wrote) = 1 THEN <<r>> ELSE <<r, r>>

\* C10: the <stem>.md entry of the archive a successful conversion returns
\* holds the Markdown of that conversion, never that of an earlier one: in
\* /convert/aspose, when the SDK wrote Markdown files, <stem>.md is the
\* SDK's own or is built from the files of the current run.
C10_LatestMarkdown ==
    \A r \in Reqs :
        (pc[r] = "done" /\ resp[r].status = 200 /\ trace[r].env.wrote # {}) =>
            /\ "md" \in DOMAIN resp[r].archive
            /\ resp[r].archive["md"] = FromOwnFiles(r, trace[r].env.wrote)

====
